---- MODULE Spec2Model ----
(***************************************************************************)
(* A model of src/app.py: the Flask routes over the employees and          *)
(* companies tables.  Every request is served by one process of Procs.     *)
(* A handler is cut into steps only at the statements other requests can   *)
(* observe: the SELECTs, the INSERT and the COMMIT.  Everything a handler  *)
(* does between two such statements (validation, connecting, the except    *)
(* and finally blocks, building the response) is part of the step.         *)
(*                                                                         *)
(* Every call into the database driver may raise: a step draws the set F   *)
(* of driver calls that raise if they are reached.                         *)
(***************************************************************************)
EXTENDS Integers, Sequences, FiniteSets, TLC

\* The number of requests a behaviour serves (each process serves one).
MaxRequests == 2

Procs == 1..MaxRequests

(***************************************************************************)
(* Values                                                                  *)
(***************************************************************************)

\* Python / JSON values of the request body's fields.
None == [type |-> "None", val |-> ""]
JsonString(s) == [type |-> "string", val |-> s]
JsonNumber(s) == [type |-> "number", val |-> s]

\* Strings that uuid.UUID parses, and one it does not.
UuidStrings ==
    {"11111111-1111-4111-8111-111111111111",
     "22222222-2222-4222-8222-222222222222"}
NonUuidStrings == {"abc"}

CompanyIdValues ==
    {None, JsonNumber("123")}
        \cup {JsonString(s) : s \in UuidStrings \cup NonUuidStrings}
NameValues == {None, JsonString("Acme"), JsonString("Globex")}

\* The value of request.get_json(): null, a non-empty array, or an object
\* whose company_id and name are what data.get returns (None when absent).
Bodies ==
    {[type |-> "null", company_id |-> None, name |-> None],
     [type |-> "array", company_id |-> None, name |-> None]}
        \cup {[type |-> "object", company_id |-> c, name |-> n] :
                 c \in CompanyIdValues, n \in NameValues}

\* Path parameters of GET /companies/<company_id> and GET /employee/<email>.
CompanyIdParams == UuidStrings \cup NonUuidStrings
EmailParams == {"ada@example.com", "bob@example.com", "nobody@example.com"}

\* The driver calls that may raise.
DriverCalls == {"connect", "cursor", "execute", "commit", "rollback", "cur_close"}

\* Python truthiness of a body field (`not company_id`).
Truthy(v) ==
    CASE v.type = "None" -> FALSE
      [] v.type = "string" -> v.val # ""
      [] v.type = "number" -> v.val # "0"
      [] OTHER -> TRUE

\* Truthiness of the parsed body (`not data`): null is falsy, a non-empty
\* array or object is truthy.
BodyTruthy(data) == data.type # "null"

\* uuid.UUID(company_id): a string is parsed ("ok" or ValueError); any other
\* type has no .replace and raises AttributeError.
UUID(v) ==
    IF v.type # "string" THEN "AttributeError"
    ELSE IF v.val \in UuidStrings THEN "ok"
    ELSE "ValueError"

\* str() of an integer column value (employees.id).
str(n) == ToString(n)

(***************************************************************************)
(* Responses                                                               *)
(***************************************************************************)

NoResponse ==
    [http |-> 0, kind |-> "none", statusCode |-> 0, error |-> FALSE,
     path |-> "", payloadKind |-> "none", payload |-> <<>>, message |-> ""]

\* format_response: the envelope and the HTTP status.  payloadKind "none"
\* is payload=None, message "" is message=None.
format_response(status_code, error, path, payloadKind, payload, message) ==
    [http |-> status_code, kind |-> "envelope", statusCode |-> status_code,
     error |-> error, path |-> path, payloadKind |-> payloadKind,
     payload |-> payload, message |-> message]

\* What Flask answers when a view raises: its own 500 page, no envelope.
InternalServerError ==
    [http |-> 500, kind |-> "html", statusCode |-> 0, error |-> FALSE,
     path |-> "", payloadKind |-> "none", payload |-> <<>>, message |-> ""]

\* What Flask answers for a URL no route is registered for.
NotFound ==
    [http |-> 404, kind |-> "html", statusCode |-> 0, error |-> FALSE,
     path |-> "", payloadKind |-> "none", payload |-> <<>>, message |-> ""]

(***************************************************************************)
(* State                                                                   *)
(***************************************************************************)

VARIABLES
    startedAs,   \* "imported" (a WSGI server imports app) or "main" (python app.py)
    employees,   \* the rows of the employees table
    companies,   \* the committed rows of the companies table, in insertion order
    req,         \* req[p]: the request process p serves and how far it is
    last,        \* the request answered last, with its response
    created      \* the (company_id, name) pairs answered with 201 so far

vars == <<startedAs, employees, companies, req, last, created>>

IdleRequest ==
    [pc |-> "idle", route |-> "", arg |-> "",
     body |-> [type |-> "null", company_id |-> None, name |-> None],
     opened |-> FALSE, connOpen |-> FALSE, pending |-> <<>>,
     failed |-> {}, rolledBack |-> FALSE, passedCheck |-> FALSE,
     committed |-> FALSE, response |-> NoResponse]

EmployeesTable ==
    <<[id |-> 1, email |-> "ada@example.com",
       company_id |-> "11111111-1111-4111-8111-111111111111",
       company_name |-> "Acme"],
      [id |-> 2, email |-> "bob@example.com",
       company_id |-> "22222222-2222-4222-8222-222222222222",
       company_name |-> "Globex"]>>

Init ==
    /\ startedAs \in {"imported", "main"}
    /\ employees = EmployeesTable
    /\ companies = <<>>
    /\ req = [p \in Procs |-> IdleRequest]
    /\ last = IdleRequest
    /\ created = {}

(***************************************************************************)
(* The database                                                            *)
(***************************************************************************)

\* psycopg2.connect inside get_db_connection: a connection, or None when
\* connect raises (the exception is swallowed).
get_db_connection(F) == "connect" \notin F

\* A companies table without the unique key.
NoUniqueIndex(rows, key) == FALSE

\* The unique key of companies.company_id: whether rows already holds key.
\* An INSERT of the key waits while another open transaction holds an
\* uncommitted row with it, and raises a duplicate-key error when a
\* committed row has it.
UniqueIndexHolds(rows, key) == \E i \in DOMAIN rows : rows[i].company_id = key

\* The SELECT without its WHERE clause.
SelectEveryEmployee(rows, email) == rows

\* SELECT ... FROM employees WHERE email = %s
SelectEmployeeByEmail(rows, email) == SelectSeq(rows, LAMBDA r : r.email = email)

\* SELECT company_id, name FROM companies WHERE company_id = %s
SelectCompanyById(rows, company_id) ==
    SelectSeq(rows, LAMBDA r : r.company_id = company_id)

\* An existence check that looks the id up in the name column.
CountCompaniesByName(rows, company_id) ==
    Cardinality({i \in DOMAIN rows : rows[i].name = company_id})

\* SELECT COUNT(*) FROM companies WHERE company_id = %s
CountCompanies(rows, company_id) ==
    Cardinality({i \in DOMAIN rows : rows[i].company_id = company_id})

\* cur.fetchone(): the possible values, each a sequence of zero or one row
\* (the order of a result set is the database's).
fetchone(result) ==
    IF result = <<>> THEN {<<>>} ELSE {<<result[i]>> : i \in DOMAIN result}

\* A handler that never commits: the rows are lost with the connection.
CommitNothing(rows, pending) == rows

\* conn.commit(): the transaction's rows join the committed ones.
Commit(rows, pending) == rows \o pending

\* The uncommitted rows of the open transactions of the processes but p.
PendingOfOthers(p) ==
    LET RECURSIVE Collect(_)
        Collect(S) ==
            IF S = {} THEN <<>>
            ELSE LET q == CHOOSE x \in S : TRUE
                 IN  req[q].pending \o Collect(S \ {q})
    IN  Collect(Procs \ {p})

(***************************************************************************)
(* The handlers                                                            *)
(***************************************************************************)

\* The finally block of every handler: `if cur: cur.close()` and then
\* `if conn: conn.close()`.  When cur.close() raises, the exception leaves
\* the handler: conn.close() is not reached and the response the try or
\* except block returned is lost.  Closing the connection ends its
\* transaction without committing.
Finally(cur, F, r) ==
    IF cur /\ "cur_close" \in F
    THEN [r EXCEPT !.pc = "done", !.response = InternalServerError,
                   !.failed = @ \cup {"cur_close"}]
    ELSE [r EXCEPT !.pc = "done", !.connOpen = FALSE, !.pending = <<>>]

\* The request as the handler finds it.
Request(route, arg, body) ==
    [IdleRequest EXCEPT !.route = route, !.arg = arg, !.body = body]

\* `conn is None`: the 500 of the handlers that could not connect.
ConnectionFailed(r, path) ==
    [r EXCEPT !.pc = "done", !.failed = {"connect"},
              !.response = format_response(500, TRUE, path, "none", <<>>,
                                           "Database connection failed")]

\* The shape of the four reading handlers: connect, cursor, execute, build
\* the response `result`; `except Exception` answers 500; finally.
Read(r, path, F, result) ==
    IF ~get_db_connection(F) THEN ConnectionFailed(r, path)
    ELSE LET conn == [r EXCEPT !.opened = TRUE, !.connOpen = TRUE]
             error(e) == format_response(500, TRUE, path, "none", <<>>,
                                         "Internal server error: " \o e)
         IN  IF "cursor" \in F
             THEN Finally(FALSE, F, [conn EXCEPT !.failed = {"cursor"},
                                                 !.response = error("cursor")])
             ELSE IF "execute" \in F
             THEN Finally(TRUE, F, [conn EXCEPT !.failed = {"execute"},
                                                !.response = error("execute")])
             ELSE Finally(TRUE, F, [conn EXCEPT !.response = result])

EmployeePayload(employee) ==
    [id |-> str(employee.id), email |-> employee.email,
     companyId |-> employee.company_id, companyName |-> employee.company_name]

\* company_id reaches the handler as text, as it was inserted: str() of it
\* is the same text.
CompanyPayload(company) ==
    [companyId |-> company.company_id, name |-> company.name]

\* employee: what fetchone returned.
get_employee_by_email(email, employee, F) ==
    LET path == "/employee/" \o email
    IN  Read(Request("get_employee_by_email", email, IdleRequest.body), path, F,
             IF employee # <<>>
             THEN format_response(200, FALSE, path, "object",
                                  <<EmployeePayload(employee[1])>>, "")
             ELSE format_response(404, TRUE, path, "none", <<>>,
                                  "Employee with email '" \o email \o "' not found"))

get_all_employees(rows, F) ==
    Read(Request("get_all_employees", "", IdleRequest.body), "/employees", F,
         format_response(200, FALSE, "/employees", "array",
                         [i \in DOMAIN rows |-> EmployeePayload(rows[i])], ""))

get_all_companies(rows, F) ==
    Read(Request("get_all_companies", "", IdleRequest.body), "/companies", F,
         format_response(200, FALSE, "/companies", "array",
                         [i \in DOMAIN rows |-> CompanyPayload(rows[i])], ""))

\* company: what fetchone returned.
get_company_by_id(company_id, company, F) ==
    LET path == "/companies/" \o company_id
    IN  Read(Request("get_company_by_id", company_id, IdleRequest.body), path, F,
             IF company # <<>>
             THEN format_response(200, FALSE, path, "object",
                                  <<CompanyPayload(company[1])>>, "")
             ELSE format_response(404, TRUE, path, "none", <<>>,
                                  "Company with ID '" \o company_id \o "' not found"))

get_order_status ==
    [Request("get_order_status", "", IdleRequest.body) EXCEPT
        !.pc = "done",
        !.response = format_response(200, FALSE, "/order-status", "object",
                                     <<[eligibleForRefund |-> TRUE]>>, "")]

\* The view functions app.route has registered when requests are served.
\* Run as the main script, app.run() blocks at line 244, before the
\* decorator of get_order_status at line 246 is executed.
RegisteredRoutes(mode) ==
    {"get_employee_by_email", "get_all_employees", "get_all_companies",
     "get_company_by_id", "create_company"}
        \cup (IF mode = "main" THEN {} ELSE {"get_order_status"})

(***************************************************************************)
(* create_company                                                          *)
(***************************************************************************)

\* The 201 body (the generated id and the two timestamps are left out).
CompanyCreated(company_id, name) ==
    [http |-> 201, kind |-> "company", statusCode |-> 0, error |-> FALSE,
     path |-> "/companies", payloadKind |-> "object",
     payload |-> <<[type |-> "company", company_id |-> company_id,
                    app_id |-> "w9shsv7c", name |-> name,
                    monthly_spend |-> 0, session_count |-> 0,
                    user_count |-> 0]>>,
     message |-> ""]

\* An except block that reports every failure as a conflict.
CreateCompanyConflict(e) ==
    format_response(409, TRUE, "/companies", "none", <<>>,
                    "Internal server error: " \o e)

\* The response of `except Exception as e`.
CreateCompanyError(e) ==
    format_response(500, TRUE, "/companies", "none", <<>>,
                    "Internal server error: " \o e)

\* `except Exception as e: conn.rollback() ...` and the finally block; e is
\* the call that raised.  When rollback raises too, its exception leaves the
\* handler after the finally block and the transaction stays as it is until
\* the connection is closed.
Except(cur, F, r, e) ==
    IF "rollback" \in F
    THEN Finally(cur, F, [r EXCEPT !.failed = @ \cup {e, "rollback"},
                                   !.rolledBack = TRUE,
                                   !.response = InternalServerError])
    ELSE Finally(cur, F, [r EXCEPT !.failed = @ \cup {e},
                                   !.rolledBack = TRUE,
                                   !.pending = <<>>,
                                   !.response = CreateCompanyError(e)])

\* Lines 164-178: the response of the checks made before connecting, or
\* NoResponse when the body passes them.
Validate(data) ==
    LET bad(message) ==
            format_response(400, TRUE, "/companies", "none", <<>>, message)
    IN  IF ~BodyTruthy(data) THEN bad("Request body must be JSON")
        ELSE IF data.type # "object" THEN InternalServerError
        ELSE IF ~Truthy(data.company_id) \/ ~Truthy(data.name)
        THEN bad("Missing 'company_id' or 'name' in request body")
        ELSE CASE UUID(data.company_id) = "ValueError" ->
                      bad("Invalid 'company_id' format (must be a valid UUID)")
               [] UUID(data.company_id) = "AttributeError" -> InternalServerError
               [] OTHER -> NoResponse

\* Lines 164-190: from the request to the existence check.
create_company(data, rows, F) ==
    LET r == Request("create_company", "", data)
        invalid == Validate(data)
    IN  IF invalid # NoResponse
        THEN [r EXCEPT !.pc = "done", !.response = invalid]
        ELSE IF ~get_db_connection(F) THEN ConnectionFailed(r, "/companies")
        ELSE LET conn == [r EXCEPT !.opened = TRUE, !.connOpen = TRUE]
             IN  IF "cursor" \in F THEN Except(FALSE, F, conn, "cursor")
                 ELSE IF "execute" \in F THEN Except(TRUE, F, conn, "execute")
                 ELSE IF CountCompanies(rows, data.company_id.val) > 0
                 THEN Finally(TRUE, F,
                        [conn EXCEPT !.response =
                            format_response(409, TRUE, "/companies", "none", <<>>,
                                "Company with ID '" \o data.company_id.val
                                    \o "' already exists")])
                 ELSE [conn EXCEPT !.pc = "checked", !.passedCheck = TRUE]

\* Lines 193-196: the INSERT, in the transaction the SELECT opened.
create_company_insert(r, rows, F) ==
    IF "execute" \in F THEN Except(TRUE, F, r, "execute")
    ELSE IF UniqueIndexHolds(rows, r.body.company_id.val)
    THEN Except(TRUE, F, r, "duplicate_key")
    ELSE [r EXCEPT !.pc = "inserted",
                   !.pending = <<[company_id |-> r.body.company_id.val,
                                  name |-> r.body.name.val]>>]

\* Lines 197-231: conn.commit() and the 201 response.
create_company_commit(r, F) ==
    IF "commit" \in F THEN Except(TRUE, F, r, "commit")
    ELSE Finally(TRUE, F,
            [r EXCEPT !.committed = TRUE,
                      !.response = CompanyCreated(r.body.company_id.val,
                                                  r.body.name.val)])

(***************************************************************************)
(* Actions: process p serves the p-th request to arrive                    *)
(***************************************************************************)

\* The driver calls each step makes.
ReadCalls == {"connect", "cursor", "execute", "cur_close"}
CheckCalls == {"connect", "cursor", "execute", "rollback", "cur_close"}
InsertCalls == {"execute", "rollback", "cur_close"}
CommitCalls == {"commit", "rollback", "cur_close"}

Arrives(p) ==
    /\ req[p].pc = "idle"
    /\ \A q \in Procs : q < p => req[q].pc # "idle"

\* What stays of a request once its response is out: the connection it
\* left open, and the transaction open on it.
Answered(r) ==
    [IdleRequest EXCEPT !.pc = "done", !.connOpen = r.connOpen,
                        !.pending = r.pending]

\* Process p's handler has come to r: still running, or answered.
Step(p, r) ==
    IF r.pc = "done"
    THEN /\ req' = [req EXCEPT ![p] = Answered(r)]
         /\ last' = r
         /\ created' = IF r.response.http = 201
                       THEN created \cup {[company_id |-> r.body.company_id.val,
                                           name |-> r.body.name.val]}
                       ELSE created
    ELSE /\ req' = [req EXCEPT ![p] = r]
         /\ UNCHANGED <<last, created>>

GetEmployeeByEmail(p) ==
    /\ Arrives(p)
    /\ \E email \in EmailParams, F \in SUBSET ReadCalls :
          \E employee \in fetchone(SelectEmployeeByEmail(employees, email)) :
             Step(p, get_employee_by_email(email, employee, F))
    /\ UNCHANGED <<startedAs, employees, companies>>

GetAllEmployees(p) ==
    /\ Arrives(p)
    /\ \E F \in SUBSET ReadCalls : Step(p, get_all_employees(employees, F))
    /\ UNCHANGED <<startedAs, employees, companies>>

GetAllCompanies(p) ==
    /\ Arrives(p)
    /\ \E F \in SUBSET ReadCalls : Step(p, get_all_companies(companies, F))
    /\ UNCHANGED <<startedAs, employees, companies>>

GetCompanyById(p) ==
    /\ Arrives(p)
    /\ \E company_id \in CompanyIdParams, F \in SUBSET ReadCalls :
          \E company \in fetchone(SelectCompanyById(companies, company_id)) :
             Step(p, get_company_by_id(company_id, company, F))
    /\ UNCHANGED <<startedAs, employees, companies>>

\* GET /order-status through Flask's routing.
GetOrderStatus(p) ==
    /\ Arrives(p)
    /\ Step(p, IF "get_order_status" \in RegisteredRoutes(startedAs)
               THEN get_order_status
               ELSE [get_order_status EXCEPT !.response = NotFound])
    /\ UNCHANGED <<startedAs, employees, companies>>

CreateCompany(p) ==
    /\ Arrives(p)
    /\ \E data \in Bodies :
          \E F \in SUBSET (IF Validate(data) = NoResponse THEN CheckCalls ELSE {}) :
             Step(p, create_company(data, companies, F))
    /\ UNCHANGED <<startedAs, employees, companies>>

\* The INSERT waits while another open transaction holds the key.
CreateCompanyInsert(p) ==
    /\ req[p].pc = "checked"
    /\ ~UniqueIndexHolds(PendingOfOthers(p), req[p].body.company_id.val)
    /\ \E F \in SUBSET InsertCalls :
          Step(p, create_company_insert(req[p], companies, F))
    /\ UNCHANGED <<startedAs, employees, companies>>

CreateCompanyCommit(p) ==
    /\ req[p].pc = "inserted"
    /\ \E F \in SUBSET CommitCalls :
          /\ Step(p, create_company_commit(req[p], F))
          /\ companies' = IF "commit" \in F THEN companies
                          ELSE Commit(companies, req[p].pending)
    /\ UNCHANGED <<startedAs, employees>>

Next ==
    \E p \in Procs :
        \/ CreateCompany(p)
        \/ CreateCompanyInsert(p)
        \/ CreateCompanyCommit(p)
        \/ GetCompanyById(p)
        \/ GetAllCompanies(p)
        \/ GetEmployeeByEmail(p)
        \/ GetAllEmployees(p)
        \/ GetOrderStatus(p)

Spec == Init /\ [][Next]_vars

(***************************************************************************)
(* Properties                                                              *)
(***************************************************************************)

HasRow(rows, company_id) == \E i \in DOMAIN rows : rows[i].company_id = company_id

IsUuidString(v) == v.type = "string" /\ v.val \in UuidStrings

IsEnvelope(response, status) ==
    /\ response.kind = "envelope"
    /\ response.http = status
    /\ response.statusCode = status

\* Process p's request is answered in this step.
AnsweredNow(p) == req[p].pc # "done" /\ req'[p].pc = "done"

\* Process p's request arrives in this step; Arrived(p) is the request.
ArrivesNow(p) == req[p].pc = "idle" /\ req'[p].pc # "idle"
Arrived(p) == IF req'[p].pc = "done" THEN last' ELSE req'[p]

\* C1: in every reachable state no two rows of the companies table have
\* the same company_id, whatever requests ran and however they interleaved.
C1_UniqueCompanyIds ==
    \A i, j \in DOMAIN companies :
        i # j => companies[i].company_id # companies[j].company_id

\* Two requests for the same id raced (the one answered last passed the
\* existence check and then met the other's committed row).
C1_Witness ==
    /\ last.route = "create_company"
    /\ last.passedCheck
    /\ "duplicate_key" \in last.failed
    /\ HasRow(companies, last.body.company_id.val)

\* C2: a POST /companies whose company_id already has a committed row ends
\* in the step that makes the existence check and leaves the table as it
\* was; it is answered 409, unless an earlier check of the handler rejects
\* the body (400, name missing) or a driver call of the request raises (500).
C2_ExistingIdConflicts ==
    [][\A p \in Procs :
          (/\ ArrivesNow(p)
           /\ Arrived(p).route = "create_company"
           /\ Arrived(p).body.company_id.type = "string"
           /\ HasRow(companies, Arrived(p).body.company_id.val))
          => /\ AnsweredNow(p)
             /\ companies' = companies
             /\ ~last'.committed
             /\ IF ~Truthy(last'.body.name)
                THEN IsEnvelope(last'.response, 400)
                ELSE IF last'.failed = {}
                THEN IsEnvelope(last'.response, 409) /\ last'.response.error
                ELSE last'.response.http = 500]_vars

C2_Witness ==
    /\ last.route = "create_company"
    /\ last.response.http = 409
    /\ HasRow(companies, last.body.company_id.val)

\* C3: a POST /companies that passed the existence check and then meets a
\* duplicate-key failure on its INSERT (another request for the same id
\* passed the check too and committed first) is answered 500, never 409,
\* in the envelope when its rollback and cleanup succeed; the row of the
\* request that won is in the table, and that request was answered 201
\* unless a cursor close failed.
C3_RaceLoserGets500 ==
    (last.route = "create_company" /\ "duplicate_key" \in last.failed)
    => /\ last.passedCheck
       /\ last.rolledBack
       /\ ~last.committed
       /\ last.response.http = 500
       /\ last.failed = {"duplicate_key"} =>
             IsEnvelope(last.response, 500) /\ last.response.error
       /\ HasRow(companies, last.body.company_id.val)
       /\ \/ \E c \in created : c.company_id = last.body.company_id.val
          \/ \E q \in Procs : req[q].pc = "done" /\ req[q].connOpen

C3_Witness ==
    /\ last.route = "create_company"
    /\ last.passedCheck
    /\ last.failed = {"duplicate_key"}
    /\ IsEnvelope(last.response, 500)
    /\ \E c \in created : c.company_id = last.body.company_id.val

C5_ConnectionsClosed ==
    \A p \in Procs : req[p].pc = "done" => ~req[p].connOpen

\* C6: POST /companies applies its checks in order and the first that
\* fails decides the response: no JSON body -> 400; company_id or name
\* absent or falsy -> 400; company_id not a valid UUID -> 400 and no
\* INSERT; database unreachable -> 500; only a request that passed all of
\* them is answered 409 or 201.
C6_ValidationOrder ==
    last.route = "create_company"
    => LET data == last.body
           http == last.response.http
           fields == data.type = "object" /\ Truthy(data.company_id)
                        /\ Truthy(data.name)
       IN  /\ data.type = "null" => http = 400
           /\ (data.type = "object" /\ ~fields) => http = 400
           /\ (fields /\ ~IsUuidString(data.company_id))
                 => http = 400 /\ ~last.passedCheck /\ ~last.committed
           /\ (fields /\ IsUuidString(data.company_id) /\ "connect" \in last.failed)
                 => http = 500
           /\ http \in {409, 201}
                 => fields /\ IsUuidString(data.company_id) /\ last.opened

\* C7: every GET /order-status is answered 200 with the envelope
\* {statusCode: 200, error: false, payload: {eligibleForRefund: true}} and
\* opens no connection, however the process was started.
C7_OrderStatusAlways200 ==
    last.route = "get_order_status"
    => /\ IsEnvelope(last.response, 200)
       /\ ~last.response.error
       /\ last.response.payload = <<[eligibleForRefund |-> TRUE]>>
       /\ ~last.opened

\* C8: every response but the 201 of POST /companies is an envelope whose
\* statusCode is the HTTP status of the response.
C8_EveryResponseIsEnvelope ==
    last.pc = "done"
    => \/ last.route = "create_company" /\ last.response.http = 201
       \/ IsEnvelope(last.response, last.response.http)

\* C9: GET /employee/E, when none of its driver calls raises, is answered
\* 200 with the row whose email is E if the table has one and 404 with
\* error=true otherwise; it is answered 500 only when a driver call raised.
C9_EmployeeByEmail ==
    last.route = "get_employee_by_email"
    => LET known == {i \in DOMAIN employees : employees[i].email = last.arg}
       IN  /\ last.response.http = 500 => last.failed # {}
           /\ last.failed = {} =>
                 IF known # {}
                 THEN /\ IsEnvelope(last.response, 200)
                      /\ ~last.response.error
                      /\ \E i \in known :
                            last.response.payload =
                               <<[id |-> ToString(employees[i].id),
                                  email |-> last.arg,
                                  companyId |-> employees[i].company_id,
                                  companyName |-> employees[i].company_name]>>
                 ELSE /\ IsEnvelope(last.response, 404)
                      /\ last.response.error
                      /\ last.response.payloadKind = "none"

C9_Witness ==
    /\ last.route = "get_employee_by_email"
    /\ last.failed = {}
    /\ last.response.http = 200
    /\ last.response.payload[1].email = last.arg

\* C10: in POST /companies an exception raised after the connection is
\* obtained (existence check, INSERT, commit) makes the handler issue a
\* rollback and answer with a 500 envelope; and a POST /companies answered
\* 500 has added no row to the companies table.
C10_RollbackAnd500 ==
    [][\A p \in Procs :
          (AnsweredNow(p) /\ last'.route = "create_company")
          => /\ (last'.failed \cap {"cursor", "execute", "commit", "duplicate_key"} # {})
                   => last'.rolledBack /\ IsEnvelope(last'.response, 500)
             /\ last'.response.http = 500
                   => companies' = companies /\ ~last'.committed]_vars

====
